---------------------------- MODULE Spec2Model ----------------------------
(***************************************************************************)
(* A model of ACTINN/Data_IO/CSV_IO.py.                                    *)
(*                                                                         *)
(*   scale_sets          the gene-set aligner and normalizer, one action   *)
(*                       per statement group (specification Spec)          *)
(*   type2label_dict,    the label codec as CSV_IO uses it, lines 147-153  *)
(*   convert_type2label  and 177 (specification SpecCodec)                 *)
(*                                                                         *)
(* Numbers.  The float32 values of total_set are carried in fixed point:   *)
(* a value x is the integer floor(x * Scale).  NaN is a value of its own   *)
(* and propagates through every operation as IEEE-754 prescribes; every    *)
(* comparison with NaN is false.  The counts are non-negative, so a column *)
(* whose sum is zero holds only zeros and the division yields 0/0 = NaN    *)
(* (never an infinity).  Percentiles are kept multiplied by 100, which     *)
(* makes the linear interpolation between ranks exact.  float32 rounding   *)
(* is not modelled.                                                        *)
(***************************************************************************)
EXTENDS Integers, Sequences, FiniteSets, TLC

(* ------------------------------ bounds --------------------------------- *)
\* gene identifiers of the row-alignment inputs: 1..MaxGene, ordered as the
\* identifier strings are
MaxGene == 3
\* rows of the matrices of the numeric inputs
MaxRows == 4
\* total number of columns of the inputs that vary the list's shape
MaxCols == 4
\* distinct cell-type strings
MaxLabel == 3
\* length of the training label column
MaxLen == 3
\* length of the test label column
MaxTest == 2

(* --------------------------- program constants ------------------------- *)
TargetSum == 20000
PctLow == 1
PctHigh == 99

(* fixed-point resolution of the modelled floats (not bounds of the state  *)
(* space): values in 1/2^8, the mantissa of log2 in 1/2^14, cv in 1/2^10   *)
Scale == 2^8
MantOne == 2^14
CvScale == 2^10
NaN == 0 - 1

VARIABLES
    frames,        \* the DataFrames the caller passes, never mutated
    sets,          \* the list object scale_sets mutates and returns
    common_genes, sep_point, total_set, expr, mean_expr, cv,
    rows,          \* position in common_genes of each row of total_set
    pc, err,       \* statement reached; exception raised ("none" if none)
    run, first,    \* invocation number; outcome of the first invocation
    types, test_types,          \* label columns read by CSV_IO
    all_celltype, type_to_label_dict, label_to_type_dict,
    train_label, test_label, num_classes,
    cpc, cerr

ssvars == <<frames, sets, common_genes, sep_point, total_set, expr,
            mean_expr, cv, rows, pc, err, run, first>>
cvars == <<types, test_types, all_celltype, type_to_label_dict,
           label_to_type_dict, train_label, test_label, num_classes,
           cpc, cerr>>
vars == <<ssvars, cvars>>

(* ------------------------------ helpers -------------------------------- *)
Range(s) == {s[i] : i \in DOMAIN s}

\* every order in which the elements of a set can be listed
RECURSIVE Perms(_)
Perms(S) ==
    IF S = {} THEN {<<>>}
    ELSE UNION {{Append(p, x) : p \in Perms(S \ {x})} : x \in S}

Min(a, b) == IF a <= b THEN a ELSE b

IsNaN(x) == x = NaN

\* IEEE addition
FAdd(a, b) == IF IsNaN(a) \/ IsNaN(b) THEN NaN ELSE a + b

\* IEEE comparisons: false when either side is NaN
FGeq(a, b) == ~IsNaN(a) /\ ~IsNaN(b) /\ a >= b
FLeq(a, b) == ~IsNaN(a) /\ ~IsNaN(b) /\ a <= b
FGt(a, b) == ~IsNaN(a) /\ ~IsNaN(b) /\ a > b

RECURSIVE FSum(_)
FSum(s) == IF s = <<>> THEN 0 ELSE FAdd(Head(s), FSum(Tail(s)))

\* Python sum() of a list of ints
RECURSIVE PySum(_)
PySum(s) == IF s = <<>> THEN 0 ELSE Head(s) + PySum(Tail(s))

RECURSIVE Insert(_, _)
Insert(x, s) ==
    IF s = <<>> THEN <<x>>
    ELSE IF x <= Head(s) THEN <<x>> \o s
    ELSE <<Head(s)>> \o Insert(x, Tail(s))

\* sorted(): ascending order of a list
RECURSIVE sorted(_)
sorted(s) == IF s = <<>> THEN <<>> ELSE Insert(Head(s), sorted(Tail(s)))

\* boolean-mask indexing a[mask]: the positions of s where keep holds
RECURSIVE MaskPos(_, _)
MaskPos(keep, n) ==
    IF n = 0 THEN <<>>
    ELSE IF keep[n] THEN Append(MaskPos(keep, n - 1), n)
    ELSE MaskPos(keep, n - 1)

Take(s, pos) == [i \in 1..Len(pos) |-> s[pos[i]]]

\* a matrix is [nrow, ncol, v]: v the sequence of its rows
MaskRows(m, keep) ==
    LET pos == MaskPos(keep, m.nrow)
    IN  [nrow |-> Len(pos), ncol |-> m.ncol, v |-> Take(m.v, pos)]

Column(m, j) == [k \in 1..m.nrow |-> m.v[k][j]]

HasNaN(s) == \E i \in DOMAIN s : IsNaN(s[i])

MatHasNaN(m) == \E k \in 1..m.nrow : HasNaN(m.v[k])

(* ------------------------------ numerics ------------------------------- *)
\* np.divide(x, colsum) * 20000 on float32: 0/0 is NaN
Normalized(c, colsum) ==
    IF IsNaN(c) \/ IsNaN(colsum) THEN NaN
    ELSE IF colsum = 0 THEN NaN
    ELSE (c * TargetSum * Scale) \div colsum

\* floor(log2(v / Scale)) for v >= Scale
RECURSIVE ExpOf(_)
ExpOf(v) == IF v < 2 * Scale THEN 0 ELSE 1 + ExpOf(v \div 2)

\* the fractional bits of log2 of a mantissa m in [MantOne, 2*MantOne), by
\* repeated squaring; w is the weight of the next bit
RECURSIVE Log2Frac(_, _)
Log2Frac(m, w) ==
    IF w = 0 THEN 0
    ELSE LET sq == (m * m) \div MantOne
         IN  IF sq >= 2 * MantOne
             THEN w + Log2Frac(sq \div 2, w \div 2)
             ELSE Log2Frac(sq, w \div 2)

\* np.log2(x + 1)
Log2p1(x) ==
    IF IsNaN(x) THEN NaN
    ELSE LET v == x + Scale
             e == ExpOf(v)
             m == (v * (MantOne \div Scale)) \div (2^e)
         IN  e * Scale + Log2Frac(m, Scale \div 2)

\* largest r with r*r <= n, for n < 2^30; b is the bit tried next
RECURSIVE IsqrtFrom(_, _, _)
IsqrtFrom(n, r, b) ==
    IF b = 0 THEN r
    ELSE IF (r + b) * (r + b) <= n THEN IsqrtFrom(n, r + b, b \div 2)
    ELSE IsqrtFrom(n, r, b \div 2)

Isqrt(n) == IsqrtFrom(n, 0, 2^14)

\* np.mean of one row
RowMean(row) ==
    LET s == FSum(row) IN IF IsNaN(s) THEN NaN ELSE s \div Len(row)

RECURSIVE SqDev(_, _, _)
SqDev(row, t, s) ==
    IF row = <<>> THEN 0
    ELSE (t * Head(row) - s) * (t * Head(row) - s) + SqDev(Tail(row), t, s)

\* np.std(row) / np.mean(row), the population standard deviation: with t
\* values of sum s, std = sqrt(q / t) / t and mean = s / t, where q is the
\* sum of (t*x - s)^2.  A zero mean gives 0/0 = NaN.
RowCv(row) ==
    LET t == Len(row)
        s == FSum(row)
    IN  IF IsNaN(s) THEN NaN
        ELSE IF s = 0 THEN NaN
        ELSE (CvScale * Isqrt(SqDev(row, t, s) \div t)) \div s

\* np.percentile(a, q) of a non-empty array, times 100: NaN if a holds a
\* NaN, else the linear interpolation between the two nearest ranks of the
\* sorted array at the position (n - 1) * q / 100
Percentile100(a, q) ==
    IF HasNaN(a) THEN NaN
    ELSE LET s == sorted(a)
             n == Len(s)
             lo == ((n - 1) * q) \div 100
             fr == ((n - 1) * q) % 100
         IN  100 * s[lo + 1] + fr * (s[Min(lo + 2, n)] - s[lo + 1])

Times100(x) == IF IsNaN(x) THEN NaN ELSE 100 * x

\* faulty variant: the bounds taken exclusive
PercentileMaskStrict(a) ==
    [k \in 1..Len(a) |->
        /\ FGt(Times100(a[k]), Percentile100(a, PctLow))
        /\ FGt(Percentile100(a, PctHigh), Times100(a[k]))]

\* np.logical_and(a >= np.percentile(a, 1), a <= np.percentile(a, 99))
PercentileMask(a) ==
    [k \in 1..Len(a) |->
        /\ FGeq(Times100(a[k]), Percentile100(a, PctLow))
        /\ FLeq(Times100(a[k]), Percentile100(a, PctHigh))]

(* ------------------------- pandas / numpy pieces ----------------------- *)
\* a DataFrame is [kind, index, nrow, ncol, v]: index the sequence of its row
\* labels (unique: CSV_IO deduplicates them), v its rows in that order
RowOf(df, g) == df.v[CHOOSE k \in 1..df.nrow : df.index[k] = g]

\* faulty variant: the rows labelled genes, left in the order of the frame
LocUnordered(df, genes) ==
    LET pos == MaskPos([k \in 1..df.nrow |-> df.index[k] \in Range(genes)], df.nrow)
    IN  [kind |-> "DataFrame", index |-> Take(df.index, pos), nrow |-> Len(pos),
         ncol |-> df.ncol, v |-> Take(df.v, pos)]

\* df.loc[genes,]: the rows labelled genes, in the order of genes
Loc(df, genes) ==
    [kind |-> "DataFrame", index |-> genes, nrow |-> Len(genes),
     ncol |-> df.ncol, v |-> [k \in 1..Len(genes) |-> RowOf(df, genes[k])]]

RECURSIVE ConcatRow(_, _)
ConcatRow(dfs, g) ==
    IF dfs = <<>> THEN <<>>
    ELSE RowOf(Head(dfs), g) \o ConcatRow(Tail(dfs), g)

\* np.array(pd.concat(dfs, axis=1, sort=False), dtype=np.float32) of frames
\* that all carry the same index: the rows are joined label by label
ConcatArray(dfs) ==
    LET idx == dfs[1].index
    IN  [nrow |-> Len(idx),
         ncol |-> PySum([i \in 1..Len(dfs) |-> dfs[i].ncol]),
         v |-> [k \in 1..Len(idx) |-> ConcatRow(dfs, idx[k])]]

\* np.sum(m, axis=0, keepdims=True)
ColSums(m) == [j \in 1..m.ncol |-> FSum(Column(m, j))]

\* np.divide(total_set, np.sum(total_set, axis=0, keepdims=True)) * 20000
NormalizeArray(m) ==
    LET cs == ColSums(m)
    IN  [m EXCEPT !.v = [k \in 1..m.nrow |->
                            [j \in 1..m.ncol |-> Normalized(m.v[k][j] , cs[j])]]]

\* np.log2(total_set + 1)
LogArray(m) ==
    [m EXCEPT !.v = [k \in 1..m.nrow |-> [j \in 1..m.ncol |-> Log2p1(m.v[k][j])]]]

\* np.sum(m, axis=1), np.mean(m, axis=1), np.std / np.mean (axis=1)
RowSums(m) == [k \in 1..m.nrow |-> FSum(m.v[k])]
RowMeans(m) == [k \in 1..m.nrow |-> RowMean(m.v[k])]
RowCvs(m) == [k \in 1..m.nrow |-> RowCv(m.v[k])]

\* faulty variant: no row is masked out
NonZeroMeanMaskAll(means) == [k \in 1..Len(means) |-> TRUE]

\* mean_expr > 0
NonZeroMeanMask(means) == [k \in 1..Len(means) |-> FGt(means[k], 0)]

\* a[lo:hi] of a Python sequence (0-based, half-open, clamped to the length)
PySlice(s, lo, hi) == SubSeq(s, Min(lo, Len(s)) + 1, Min(hi, Len(s)))

\* faulty variant: the split points taken one position early
SplitSliceEarly(m, sep, i) ==
    LET lo == PySum(PySlice(sep, 0, i - 1))
        hi == PySum(PySlice(sep, 0, i))
    IN  [kind |-> "ndarray", nrow |-> m.nrow,
         ncol |-> Len(PySlice([j \in 1..m.ncol |-> j], lo, hi)),
         v |-> [k \in 1..m.nrow |-> PySlice(m.v[k], lo, hi)]]

\* total_set[:, sum(sep_point[:(i+1)]):sum(sep_point[:(i+2)])] for the i-th
\* list element, i counted from 1 here and from 0 in the source
SplitSlice(m, sep, i) ==
    LET lo == PySum(PySlice(sep, 0, i))
        hi == PySum(PySlice(sep, 0, i + 1))
    IN  [kind |-> "ndarray", nrow |-> m.nrow,
         ncol |-> Len(PySlice([j \in 1..m.ncol |-> j], lo, hi)),
         v |-> [k \in 1..m.nrow |-> PySlice(m.v[k], lo, hi)]]

\* set.intersection over the index of every element of the list
CommonSet(dfs) ==
    {g \in Range(dfs[1].index) : \A i \in 1..Len(dfs) : g \in Range(dfs[i].index)}

\* faulty variant: the list left in the set's iteration order
UnsortedList(lst) == lst

\* sorted(list(common_genes)), lst being the list in the set's iteration order
SortedList(lst) == sorted(lst)

NoMatrix == [nrow |-> 0, ncol |-> 0, v |-> <<>>]

(* ------------------------------ scale_sets ----------------------------- *)
Raise(e) ==
    /\ pc' = "error"
    /\ err' = e

\* lines 67-71: the common genes, sorted
CommonGenes ==
    /\ pc = "start"
    /\ \E lst \in Perms(CommonSet(sets)) : common_genes' = SortedList(lst)
    /\ pc' = "align"
    /\ UNCHANGED <<frames, sets, sep_point, total_set, expr, mean_expr, cv,
                   rows, err, run, first>>

\* lines 72-75: every list element replaced by its rows at the common genes,
\* its column count appended to sep_point
Align ==
    /\ pc = "align"
    /\ sets' = [i \in 1..Len(sets) |-> Loc(sets[i], common_genes)]
    /\ sep_point' = <<0>> \o [i \in 1..Len(sets) |-> sets'[i].ncol]
    /\ pc' = "concat"
    /\ UNCHANGED <<frames, common_genes, total_set, expr, mean_expr, cv,
                   rows, err, run, first>>

\* line 76
Concat ==
    /\ pc = "concat"
    /\ total_set' = ConcatArray(sets)
    /\ rows' = [k \in 1..Len(common_genes) |-> k]
    /\ pc' = "normalize"
    /\ UNCHANGED <<frames, sets, common_genes, sep_point, expr, mean_expr,
                   cv, err, run, first>>

\* line 77: no check of the column sums; numpy only warns on 0/0
Normalize ==
    /\ pc = "normalize"
    /\ total_set' = NormalizeArray(total_set)
    /\ pc' = "log"
    /\ UNCHANGED <<frames, sets, common_genes, sep_point, expr, mean_expr,
                   cv, rows, err, run, first>>

\* line 78
Log ==
    /\ pc = "log"
    /\ total_set' = LogArray(total_set)
    /\ pc' = "expr"
    /\ UNCHANGED <<frames, sets, common_genes, sep_point, expr, mean_expr,
                   cv, rows, err, run, first>>

\* lines 79-81: np.percentile of an empty array raises
ExprFilter ==
    /\ pc = "expr"
    /\ expr' = RowSums(total_set)
    /\ IF Len(expr') = 0
       THEN /\ Raise("IndexError")
            /\ UNCHANGED <<total_set, rows>>
       ELSE /\ total_set' = MaskRows(total_set, PercentileMask(expr'))
            /\ rows' = Take(rows, MaskPos(PercentileMask(expr'), Len(expr')))
            /\ pc' = "zero_mean"
            /\ UNCHANGED err
    /\ UNCHANGED <<frames, sets, common_genes, sep_point, mean_expr, cv,
                   run, first>>

\* lines 84-87
ZeroMeanFilter ==
    /\ pc = "zero_mean"
    /\ LET means == RowMeans(total_set)
           mask == NonZeroMeanMask(means)
       IN  /\ total_set' = MaskRows(total_set, mask)
           /\ mean_expr' = Take(means, MaskPos(mask, Len(means)))
           /\ rows' = Take(rows, MaskPos(mask, Len(means)))
    /\ pc' = "cv"
    /\ UNCHANGED <<frames, sets, common_genes, sep_point, expr, cv, err,
                   run, first>>

\* lines 89-91: np.percentile of an empty array raises
CvFilter ==
    /\ pc = "cv"
    /\ cv' = RowCvs(total_set)
    /\ IF Len(cv') = 0
       THEN /\ Raise("IndexError")
            /\ UNCHANGED <<total_set, rows>>
       ELSE /\ total_set' = MaskRows(total_set, PercentileMask(cv'))
            /\ rows' = Take(rows, MaskPos(PercentileMask(cv'), Len(cv')))
            /\ pc' = "split"
            /\ UNCHANGED err
    /\ UNCHANGED <<frames, sets, common_genes, sep_point, expr, mean_expr,
                   run, first>>

\* lines 92-94
Resplit ==
    /\ pc = "split"
    /\ sets' = [i \in 1..Len(sets) |-> SplitSlice(total_set, sep_point, i)]
    /\ pc' = "done"
    /\ UNCHANGED <<frames, common_genes, sep_point, total_set, expr,
                   mean_expr, cv, rows, err, run, first>>

\* the state of a fresh invocation on a new list of the same DataFrames
Fresh(dfs) ==
    /\ sets = dfs
    /\ common_genes = <<>>
    /\ sep_point = <<>>
    /\ total_set = NoMatrix
    /\ expr = <<>>
    /\ mean_expr = <<>>
    /\ cv = <<>>
    /\ rows = <<>>
    /\ pc = "start"
    /\ err = "none"

\* the caller invokes scale_sets a second time on a new list of the same
\* DataFrames, as CSV_IO line 144 builds it; the first outcome is kept
Rerun ==
    /\ pc \in {"done", "error"}
    /\ run = 1
    /\ first' = [sets |-> sets, err |-> err]
    /\ run' = 2
    /\ sets' = frames
    /\ common_genes' = <<>>
    /\ sep_point' = <<>>
    /\ total_set' = NoMatrix
    /\ expr' = <<>>
    /\ mean_expr' = <<>>
    /\ cv' = <<>>
    /\ rows' = <<>>
    /\ pc' = "start"
    /\ err' = "none"
    /\ UNCHANGED frames

(* ------------------------------ label codec ---------------------------- *)
\* the cell-type strings
LabelName == <<"B", "NK", "T", "DC", "Mono", "Mast">>

\* type2label_dict, lines 30-34, lst being list(set(types)) in the set's
\* iteration order: lst[i] gets the code i (counted from 0), a later
\* assignment to the same key replacing an earlier one
Type2LabelDict(lst) ==
    [t \in Range(lst) |->
        (CHOOSE i \in 1..Len(lst) :
            lst[i] = t /\ \A j \in (i + 1)..Len(lst) : lst[j] # t) - 1]

\* faulty variant: the codes taken to follow the order of the label names
InvertDictSorted(d) ==
    LET names == {i \in 1..Len(LabelName) : LabelName[i] \in DOMAIN d}
    IN  [c \in {d[k] : k \in DOMAIN d} |->
            LabelName[CHOOSE i \in names :
                Cardinality({j \in names : j < i}) = c]]

\* {v: k for k, v in type_to_label_dict.items()}, line 148
InvertDict(d) ==
    [c \in {d[k] : k \in DOMAIN d} |-> CHOOSE k \in DOMAIN d : d[k] = c]

\* faulty variant: type_to_label_dict.get(type, -1)
LookupGet(d, t) ==
    IF t \in DOMAIN d THEN [raised |-> FALSE, val |-> d[t]]
    ELSE [raised |-> FALSE, val |-> 0 - 1]

\* type_to_label_dict[type], line 52: a missing key raises KeyError
Lookup(d, t) ==
    IF t \in DOMAIN d THEN [raised |-> FALSE, val |-> d[t]]
    ELSE [raised |-> TRUE, val |-> 0]

\* convert_type2label, lines 49-53: the loop stops at the first KeyError
ConvertType2Label(ts, d) ==
    IF \E i \in 1..Len(ts) : Lookup(d, ts[i]).raised
    THEN [raised |-> TRUE, labels |-> <<>>]
    ELSE [raised |-> FALSE, labels |-> [i \in 1..Len(ts) |-> Lookup(d, ts[i]).val]]

\* faulty variant: list(types), the duplicates kept
AllCelltypeNoSet(ts) == {ts}

\* list(set(types)), line 29: the distinct types in any iteration order
AllCelltype(ts) == Perms(Range(ts))

\* CSV_IO line 147
BuildDict ==
    /\ cpc = "build"
    /\ \E lst \in AllCelltype(types) :
          /\ all_celltype' = lst
          /\ type_to_label_dict' = Type2LabelDict(lst)
    /\ cpc' = "invert"
    /\ UNCHANGED <<types, test_types, label_to_type_dict, train_label,
                   test_label, num_classes, cerr>>

\* CSV_IO line 148
BuildInverse ==
    /\ cpc = "invert"
    /\ label_to_type_dict' = InvertDict(type_to_label_dict)
    /\ cpc' = "encode_train"
    /\ UNCHANGED <<types, test_types, all_celltype, type_to_label_dict,
                   train_label, test_label, num_classes, cerr>>

\* CSV_IO line 152
EncodeTrain ==
    /\ cpc = "encode_train"
    /\ LET r == ConvertType2Label(types, type_to_label_dict)
       IN  IF r.raised
           THEN /\ cpc' = "error"
                /\ cerr' = "KeyError"
                /\ UNCHANGED train_label
           ELSE /\ cpc' = "encode_test"
                /\ train_label' = r.labels
                /\ UNCHANGED cerr
    /\ UNCHANGED <<types, test_types, all_celltype, type_to_label_dict,
                   label_to_type_dict, test_label, num_classes>>

\* CSV_IO line 153
EncodeTest ==
    /\ cpc = "encode_test"
    /\ LET r == ConvertType2Label(test_types, type_to_label_dict)
       IN  IF r.raised
           THEN /\ cpc' = "error"
                /\ cerr' = "KeyError"
                /\ UNCHANGED test_label
           ELSE /\ cpc' = "return"
                /\ test_label' = r.labels
                /\ UNCHANGED cerr
    /\ UNCHANGED <<types, test_types, all_celltype, type_to_label_dict,
                   label_to_type_dict, train_label, num_classes>>

\* CSV_IO line 177: the third returned value
Return ==
    /\ cpc = "return"
    /\ num_classes' = Cardinality(DOMAIN type_to_label_dict)
    /\ cpc' = "returned"
    /\ UNCHANGED <<types, test_types, all_celltype, type_to_label_dict,
                   label_to_type_dict, train_label, test_label, cerr>>

(* ------------------------------- inputs -------------------------------- *)
Genes == 1..MaxGene

\* every sequence of distinct genes: an index in any order
Indexes == UNION {Perms(S) : S \in SUBSET Genes}

\* a fixed synthetic count table: the count of gene g in the j-th column of
\* the combined matrix
DataOf(g, j) == IF (g + j) % 3 = 0 THEN 2 ELSE 1

\* column counts of a list of at least two non-empty matrices with at most
\* MaxCols columns in all
Shapes ==
    UNION {{s \in [1..n -> 1..MaxCols] : PySum(s) <= MaxCols} : n \in 2..MaxCols}

Frame(idx, ncol, rowOf) ==
    [kind |-> "DataFrame", index |-> idx, nrow |-> Len(idx), ncol |-> ncol,
     v |-> [k \in 1..Len(idx) |-> rowOf[k]]]

\* two one-column matrices whose indexes are any two sequences of distinct
\* genes, holding the synthetic counts
AlignInputs ==
    {<<Frame(a, 1, [k \in 1..Len(a) |-> <<DataOf(a[k], 1)>>]),
       Frame(b, 1, [k \in 1..Len(b) |-> <<DataOf(b[k], 2)>>])>> :
        a \in Indexes, b \in Indexes}

Offset(shape, i) == PySum(SubSeq(shape, 1, i - 1))

\* lists of every shape, all matrices on the full index, synthetic counts
ShapeInputs ==
    {[i \in 1..Len(s) |->
        Frame([g \in 1..MaxGene |-> g], s[i],
              [g \in 1..MaxGene |->
                  [c \in 1..s[i] |-> DataOf(g, Offset(s, i) + c)]])] :
        s \in Shapes}

\* the rows of the numeric inputs: 0/1 counts over the three columns of a
\* two-column and a one-column matrix, row k being the binary digits of
\* code[k]; rows in non-decreasing code order (one representative of each
\* matrix up to the order of its rows)
NumShape == <<2, 1>>
Bit(code, j) == (code \div (2^(j - 1))) % 2
RowCodes ==
    UNION {{code \in [1..n -> 0..7] :
               \A k \in 1..(n - 1) : code[k] <= code[k + 1]} : n \in 1..MaxRows}

NumInputs ==
    {[i \in 1..2 |->
        Frame([g \in 1..Len(code) |-> g], NumShape[i],
              [g \in 1..Len(code) |->
                  [c \in 1..NumShape[i] |->
                      Bit(code[g], Offset(NumShape, i) + c)]])] :
        code \in RowCodes}

Labels == {LabelName[i] : i \in 1..MaxLabel}

SeqsUpTo(S, n) == UNION {[1..m -> S] : m \in 1..n}

CodecIdle ==
    /\ types = <<>>
    /\ test_types = <<>>
    /\ all_celltype = <<>>
    /\ type_to_label_dict = <<>>
    /\ label_to_type_dict = <<>>
    /\ train_label = <<>>
    /\ test_label = <<>>
    /\ num_classes = 0
    /\ cpc = "idle"
    /\ cerr = "none"

(* ---------------------------- specifications --------------------------- *)
\* scale_sets, invoked twice on the same DataFrames
Init ==
    /\ frames \in AlignInputs \cup ShapeInputs \cup NumInputs
    /\ Fresh(frames)
    /\ run = 1
    /\ first = [sets |-> <<>>, err |-> "none"]
    /\ CodecIdle

Next ==
    \/ CommonGenes /\ UNCHANGED cvars
    \/ Align /\ UNCHANGED cvars
    \/ Concat /\ UNCHANGED cvars
    \/ Normalize /\ UNCHANGED cvars
    \/ Log /\ UNCHANGED cvars
    \/ ExprFilter /\ UNCHANGED cvars
    \/ ZeroMeanFilter /\ UNCHANGED cvars
    \/ CvFilter /\ UNCHANGED cvars
    \/ Resplit /\ UNCHANGED cvars
    \/ Rerun /\ UNCHANGED cvars

Spec == Init /\ [][Next]_vars

\* the label part of CSV_IO, from line 147 on
InitCodec ==
    /\ types \in SeqsUpTo(Labels, MaxLen)
    /\ test_types \in SeqsUpTo(Labels, MaxTest)
    /\ all_celltype = <<>>
    /\ type_to_label_dict = <<>>
    /\ label_to_type_dict = <<>>
    /\ train_label = <<>>
    /\ test_label = <<>>
    /\ num_classes = 0
    /\ cpc = "build"
    /\ cerr = "none"
    /\ frames = <<>>
    /\ Fresh(<<>>)
    /\ run = 1
    /\ first = [sets |-> <<>>, err |-> "none"]

NextCodec ==
    \/ BuildDict /\ UNCHANGED ssvars
    \/ BuildInverse /\ UNCHANGED ssvars
    \/ EncodeTrain /\ UNCHANGED ssvars
    \/ EncodeTest /\ UNCHANGED ssvars
    \/ Return /\ UNCHANGED ssvars

SpecCodec == InitCodec /\ [][NextCodec]_vars

(* ------------------------------- claims -------------------------------- *)
StrictlyIncreasing(s) == \A i \in 1..(Len(s) - 1) : s[i] < s[i + 1]

\* the feature identifiers every input matrix carries
SharedGenes ==
    {g \in UNION {Range(frames[i].index) : i \in 1..Len(frames)} :
        \A i \in 1..Len(frames) : g \in Range(frames[i].index)}

\* number of columns of the inputs before input i
ColsBefore(i) == PySum([k \in 1..(i - 1) |-> frames[k].ncol])

TotalCols == PySum([k \in 1..Len(frames) |-> frames[k].ncol])

\* the count of gene g in column c of input i, and that column's sum over
\* the shared genes
CountOf(i, g, c) == RowOf(frames[i], g)[c]
ColTotal(i, c) == PySum([k \in 1..Len(common_genes) |-> CountOf(i, common_genes[k], c)])

\* the normalized, log-transformed value of gene g in column c of input i
Expected(i, g, c) == Log2p1(Normalized(CountOf(i, g, c), ColTotal(i, c)))

\* the rows of the post-log combined matrix whose sum lies in [P1, P99]
InExprRange(k) ==
    /\ FGeq(Times100(expr[k]), Percentile100(expr, PctLow))
    /\ FLeq(Times100(expr[k]), Percentile100(expr, PctHigh))

ExprKept == {k \in 1..Len(expr) : InExprRange(k)}

\* C1: when scale_sets returns, the list holds one matrix per input; matrix
\* i is the columns ColsBefore(i)+1 .. ColsBefore(i)+n_i of the filtered
\* combined matrix, so it has the n_i columns of input i, the slices are
\* disjoint, in order and cover all the columns, whatever rows were removed
C1_Resplit ==
    pc = "done" =>
        /\ Len(sets) = Len(frames)
        /\ total_set.ncol = TotalCols
        /\ \A k \in 1..total_set.nrow : Len(total_set.v[k]) = TotalCols
        /\ \A i \in 1..Len(frames) :
              /\ sets[i].kind = "ndarray"
              /\ sets[i].ncol = frames[i].ncol
              /\ sets[i].nrow = total_set.nrow
              /\ \A k \in 1..total_set.nrow :
                    /\ Len(sets[i].v[k]) = frames[i].ncol
                    /\ \A c \in 1..frames[i].ncol :
                          sets[i].v[k][c] = total_set.v[k][ColsBefore(i) + c]

C1_Witness ==
    /\ pc = "done"
    /\ Len(frames) = 3
    /\ total_set.nrow >= 2

\* C2: the common index is the sorted intersection of the inputs' feature
\* identifiers; after alignment every matrix has exactly this index, row k
\* holding its own values of gene common_genes[k]; the rows of the outputs
\* are rows of that index in increasing order, the same rows for all
C2_CommonIndex ==
    /\ pc # "start" =>
          /\ Range(common_genes) = SharedGenes
          /\ StrictlyIncreasing(common_genes)
    /\ pc \in {"concat", "normalize", "log", "expr", "zero_mean", "cv",
               "split", "error"} =>
          \A i \in 1..Len(frames) :
              /\ sets[i].index = common_genes
              /\ sets[i].nrow = Len(common_genes)
              /\ \A k \in 1..Len(common_genes) :
                    sets[i].v[k] = RowOf(frames[i], common_genes[k])
    /\ pc = "normalize" =>
          \A k \in 1..Len(common_genes) : \A i \in 1..Len(frames) :
              \A c \in 1..frames[i].ncol :
                  total_set.v[k][ColsBefore(i) + c] = CountOf(i, common_genes[k], c)
    /\ pc = "done" =>
          /\ StrictlyIncreasing(rows)
          /\ Range(rows) \subseteq 1..Len(common_genes)
          /\ \A i \in 1..Len(frames) :
                /\ sets[i].nrow = Len(rows)
                /\ \A r \in 1..Len(rows) : \A c \in 1..frames[i].ncol :
                      sets[i].v[r][c] = Expected(i, common_genes[rows[r]], c)

C2_Witness ==
    /\ pc = "done"
    /\ Len(rows) = 2
    /\ Len(frames[1].index) = 3
    /\ frames[1].index[1] > frames[1].index[2]
    /\ Range(frames[2].index) # Range(frames[1].index)

\* C6 (as claimed): a column of the combined matrix that sums to zero is
\* reported before the division, so no NaN ever enters total_set or the row
\* sums computed from it
C6_ZeroColumnDetected ==
    /\ ~MatHasNaN(total_set)
    /\ ~HasNaN(expr)

\* C7: the second invocation on the same DataFrames ends as the first did,
\* with the same exception or the same returned matrices
C7_SameOutcome ==
    (run = 2 /\ pc \in {"done", "error"}) => first = [sets |-> sets, err |-> err]

C7_Witness ==
    /\ run = 2
    /\ pc = "done"
    /\ first.err = "none"
    /\ total_set.nrow >= 2
    /\ frames[1].index # common_genes

\* C8: expr holds the row sums of the full post-log combined matrix, and
\* the expression filter retains row k iff P1 <= expr[k] <= P99, P1 and P99
\* being the 1st and 99th percentiles of expr
C8_ExprFilter ==
    pc = "zero_mean" =>
        /\ Len(expr) = Len(common_genes)
        /\ \A k \in 1..Len(expr) :
              expr[k] = FSum([j \in 1..TotalCols |->
                  LET i == CHOOSE i \in 1..Len(frames) :
                              ColsBefore(i) < j /\ j <= ColsBefore(i) + frames[i].ncol
                  IN  Expected(i, common_genes[k], j - ColsBefore(i))])
        /\ StrictlyIncreasing(rows)
        /\ Range(rows) = ExprKept
        /\ total_set.nrow = Len(rows)
        /\ \A r \in 1..Len(rows) : FSum(total_set.v[r]) = expr[rows[r]]

C8_Witness ==
    /\ pc = "zero_mean"
    /\ \E k \in ExprKept : Times100(expr[k]) = Percentile100(expr, PctHigh)
    /\ \E k \in 1..Len(expr) :
          /\ k \notin ExprKept
          /\ FGt(Percentile100(expr, PctLow), Times100(expr[k]))

\* C9: the rows left by the zero-mean exclusion are the rows the expression
\* filter kept whose mean is not zero; cv has one entry per such row and no
\* entry is the NaN of a division by a zero mean; no output row has a zero
\* mean
C9_ZeroMeanExcluded ==
    /\ pc = "cv" =>
          /\ Range(rows) = {k \in ExprKept : expr[k] # 0}
          /\ Len(mean_expr) = Len(rows)
          /\ total_set.nrow = Len(rows)
          /\ \A r \in 1..Len(rows) : mean_expr[r] > 0
    /\ (pc \in {"split", "done"} \/ (pc = "error" /\ Len(expr) > 0)) =>
          /\ Len(cv) = Cardinality({k \in ExprKept : expr[k] # 0})
          /\ ~HasNaN(cv)
    /\ pc \in {"split", "done"} =>
          /\ \A r \in 1..Len(rows) : expr[rows[r]] # 0
          /\ \A r \in 1..total_set.nrow : FSum(total_set.v[r]) > 0

C9_Witness ==
    /\ pc = "done"
    /\ total_set.nrow > 0
    /\ \E k \in ExprKept : expr[k] = 0

\* C10 (as claimed): when a percentile filter step leaves no row of a
\* non-empty, NaN-free matrix, the invocation still returns, every output a
\* matrix of zero rows with its input's column count
C10_EmptyPropagates ==
    (/\ pc \in {"done", "error"}
     /\ Len(expr) > 0
     /\ ~HasNaN(expr)
     /\ total_set.nrow = 0) =>
        /\ pc = "done"
        /\ \A i \in 1..Len(frames) :
              sets[i].nrow = 0 /\ sets[i].ncol = frames[i].ncol

\* the seen labels and the assigned codes
SeenLabels == Range(types)
Codes == {type_to_label_dict[s] : s \in DOMAIN type_to_label_dict}

\* C3: label_to_type_dict and type_to_label_dict are inverse to each other
\* on the labels seen and on the codes assigned
C3_RoundTrip ==
    cpc \notin {"build", "invert"} =>
        /\ \A s \in SeenLabels :
              /\ s \in DOMAIN type_to_label_dict
              /\ type_to_label_dict[s] \in DOMAIN label_to_type_dict
              /\ label_to_type_dict[type_to_label_dict[s]] = s
        /\ \A c \in Codes :
              /\ c \in DOMAIN label_to_type_dict
              /\ label_to_type_dict[c] \in DOMAIN type_to_label_dict
              /\ type_to_label_dict[label_to_type_dict[c]] = c

C3_Witness ==
    /\ cpc = "encode_train"
    /\ Cardinality(SeenLabels) = 3
    /\ all_celltype[1] = LabelName[2]

\* C4: the codes are one per distinct training label and are exactly
\* 0 .. n-1, n the number of distinct training labels, which is the class
\* count returned; every code convert_type2label produces is in 0 .. n-1
C4_DenseCodes ==
    LET n == Cardinality(SeenLabels)
    IN  /\ cpc # "build" =>
              /\ DOMAIN type_to_label_dict = SeenLabels
              /\ Codes = 0..(n - 1)
              /\ \A s, t \in SeenLabels :
                    type_to_label_dict[s] = type_to_label_dict[t] => s = t
        /\ cpc \in {"encode_test", "return", "returned"} =>
              \A i \in 1..Len(train_label) : train_label[i] \in 0..(n - 1)
        /\ cpc \in {"return", "returned"} =>
              \A i \in 1..Len(test_label) : test_label[i] \in 0..(n - 1)
        /\ cpc = "returned" => num_classes = n

C4_Witness ==
    /\ cpc = "returned"
    /\ num_classes = 2
    /\ Len(types) = 3
    /\ Len(test_label) = 2

\* C5: convert_type2label raises KeyError exactly when some label of its
\* input has no entry in the map, and then returns nothing; otherwise its
\* result has the input's length and holds, at each position, the code of
\* the label at that position
C5_UnknownLabelRaises ==
    /\ cpc \in {"encode_test", "return", "returned"} =>
          /\ Len(train_label) = Len(types)
          /\ \A i \in 1..Len(types) : train_label[i] = type_to_label_dict[types[i]]
    /\ cpc \in {"return", "returned"} =>
          /\ \A i \in 1..Len(test_types) : test_types[i] \in DOMAIN type_to_label_dict
          /\ Len(test_label) = Len(test_types)
          /\ \A i \in 1..Len(test_types) :
                test_label[i] = type_to_label_dict[test_types[i]]
    /\ cpc = "error" =>
          /\ cerr = "KeyError"
          /\ \E i \in 1..Len(test_types) : test_types[i] \notin DOMAIN type_to_label_dict
          /\ test_label = <<>>

C5_Witness ==
    /\ cpc = "error"
    /\ cerr = "KeyError"
    /\ Len(test_types) = 2
    /\ test_types[1] \in DOMAIN type_to_label_dict
    /\ test_types[2] \notin DOMAIN type_to_label_dict

=============================================================================
